---- MODULE Spec2Model ----
(***************************************************************************)
(* Portfolio valuation and risk engine (src/src/utils/calculations.ts)     *)
(* and the dashboard that drives it (src/src/app/page.tsx).                *)
(*                                                                         *)
(* Numbers.  Money amounts and prices are integers counting cents.         *)
(* Exchange rates are integers counting 1e-5 (1.08 is 108000).  A JS       *)
(* number that results from a division is a reduced fraction [n, d]; the   *)
(* denominator 0 encodes the non-finite results (n = 0: NaN, n = 1:        *)
(* Infinity, n = -1: -Infinity).  A percentage x is held as the reduced    *)
(* fraction x / 100, so that no intermediate product leaves the integers   *)
(* TLC supports.                                                           *)
(***************************************************************************)
EXTENDS Integers, Sequences, FiniteSets, TLC

VARIABLES
    securities,        \* useState<Security[]>            page.tsx:94
    trades,            \* useState<Trade[]>               page.tsx:95
    cashBalances,      \* useState<CashBalance[]>         page.tsx:96
    portfolioSummary,  \* useState(mockPortfolioSummary)  page.tsx:97
    riskMetrics,       \* useState(mockRiskMetrics)       page.tsx:98
    futuresPositions,  \* useState<FuturesPosition[]>     page.tsx:100
    interval,          \* the setInterval handle of the tick effect: "unset", "active", "cleared"
    effectPending,     \* a dependency of the recompute effect changed and the effect has not run yet
    timeouts,          \* closures queued by setTimeout(() => recalculatePortfolio(), 0)
    passError,         \* outcome of the last recompute pass: "none" or the thrown error
    lastAlert,         \* the message of the last window.alert, "none" before any
    ticks,             \* number of timer ticks so far (bounded by MaxTicks)
    call               \* a direct call of an engine function: its arguments and result

appVars == <<securities, trades, cashBalances, portfolioSummary, riskMetrics,
             futuresPositions, interval, effectPending, timeouts, passError, lastAlert, ticks>>
vars == <<securities, trades, cashBalances, portfolioSummary, riskMetrics,
          futuresPositions, interval, effectPending, timeouts, passError, lastAlert, ticks, call>>

(***************************************************************************)
(* Arithmetic                                                              *)
(***************************************************************************)
Abs(x) == IF x < 0 THEN -x ELSE x

Sign(x) == IF x < 0 THEN -1 ELSE IF x > 0 THEN 1 ELSE 0

RECURSIVE GCD(_, _)
GCD(a, b) == IF b = 0 THEN a ELSE GCD(b, a % b)

\* The JS quotient n / d.
Frac(n, d) ==
    IF d = 0 THEN [n |-> Sign(n), d |-> 0]
    ELSE LET g == GCD(Abs(n), Abs(d))
             s == IF d < 0 THEN -1 ELSE 1
         IN  [n |-> s * (n \div g), d |-> s * (d \div g)]

\* The JS value (n / d) * 100, held as the fraction n / d (see the header).
Pct(n, d) == Frac(n, d)

NaN == [n |-> 0, d |-> 0]

IsFinite(f) == f.d # 0

RECURSIVE SumSeq(_)
SumSeq(s) == IF s = <<>> THEN 0 ELSE Head(s) + SumSeq(Tail(s))

\* Array.prototype.map over a sequence of records, by field
Field(s, f) == [i \in 1..Len(s) |-> s[i][f]]

\* a / b rounded to the nearest integer (half away from zero), b > 0
RoundDiv(a, b) ==
    LET q == (2 * Abs(a) + b) \div (2 * b)
    IN  Sign(a) * q

RECURSIVE LongDiv(_, _, _)
\* k further decimal digits of r / b (0 <= r < b), and the remainder left
LongDiv(r, b, k) ==
    IF k = 0 THEN [q |-> 0, r |-> r]
    ELSE LET rest == LongDiv((r * 10) % b, b, k - 1)
         IN  [q |-> ((r * 10) \div b) * (10 ^ (k - 1)) + rest.q, r |-> rest.r]

\* +((g / b) * 100).toFixed(2): the percentage rounded to two decimals
RoundPct(g, b) ==
    IF b = 0 THEN Frac(g, 0)
    ELSE LET G == Abs(g)
             B == Abs(b)
             ld == LongDiv(G % B, B, 4)
             h == (G \div B) * 10000 + ld.q + (IF 2 * ld.r >= B THEN 1 ELSE 0)
         IN  Frac(Sign(g) * Sign(b) * h, 10000)

\* amount (cents) times exchange rate (1e-5), rounded to cents
MulRate(amount, rate) ==
    LET a == Abs(amount)
        A == (a \div 1000) * rate
        B == (a % 1000) * rate
    IN  Sign(amount) * ((A + (B \div 1000) + 50) \div 100)

(***************************************************************************)
(* Mark-to-market: calculateMTM, calculations.ts:378-418                   *)
(***************************************************************************)
\* closingPrices[security.symbol] || security.currentPrice
ResolvePrice(security, closingPrices) ==
    IF security.symbol \in DOMAIN closingPrices /\ closingPrices[security.symbol] # 0
    THEN closingPrices[security.symbol]
    ELSE security.currentPrice

\* the stored price is used for the value instead of the resolved one
MTMOneStalePrice(security, closingPrices) ==
    LET currentPrice == ResolvePrice(security, closingPrices)
        currentValue == IF security.type = "FUTURES"
                        THEN security.quantity * (security.contractSize * security.currentPrice)
                        ELSE security.quantity * security.currentPrice
        gainLoss == currentValue - security.buyValue
    IN  [security EXCEPT !.currentPrice = currentPrice,
                         !.currentValue = currentValue,
                         !.gainLoss = gainLoss,
                         !.gainLossPercent = Pct(gainLoss, security.buyValue)]

\* the direction of a futures position is ignored
MTMOneNoDirection(security, closingPrices) ==
    LET currentPrice == ResolvePrice(security, closingPrices)
        currentValue == IF security.type = "FUTURES"
                        THEN security.quantity * (security.contractSize * currentPrice)
                        ELSE security.quantity * currentPrice
        gainLoss == IF security.type = "FUTURES"
                    THEN (currentPrice - security.buyPrice) * security.quantity * security.contractSize
                    ELSE currentValue - security.buyValue
    IN  [security EXCEPT !.currentPrice = currentPrice,
                         !.currentValue = currentValue,
                         !.gainLoss = gainLoss,
                         !.gainLossPercent = Pct(gainLoss, security.buyValue)]

\* the body of the map callback
MTMOne(security, closingPrices) ==
    LET currentPrice == ResolvePrice(security, closingPrices)
        contractValue == security.contractSize * currentPrice
        currentValue == IF security.type = "FUTURES"
                        THEN security.quantity * contractValue
                        ELSE security.quantity * currentPrice
        gainLoss == IF security.type = "FUTURES"
                    THEN IF security.positionType = "SHORT"
                         THEN (security.buyPrice - currentPrice) * security.quantity * security.contractSize
                         ELSE (currentPrice - security.buyPrice) * security.quantity * security.contractSize
                    ELSE currentValue - security.buyValue
    IN  [security EXCEPT !.currentPrice = currentPrice,
                         !.currentValue = currentValue,
                         !.gainLoss = gainLoss,
                         !.gainLossPercent = Pct(gainLoss, security.buyValue)]

calculateMTM(secs, closingPrices) ==
    [i \in 1..Len(secs) |-> MTMOne(secs[i], closingPrices)]

(***************************************************************************)
(* Aggregation: calculatePortfolioSummary, calculations.ts:420-463         *)
(***************************************************************************)
IsFutures(s) == s.type = "FUTURES"
NotFutures(s) == s.type # "FUTURES"

\* contract.currentPrice * contract.contractSize * contract.marginRequirement || 0
\* (marginRequirement is held in percent)
ContractMargin(c) == (c.currentPrice * c.contractSize * c.marginRequirement) \div 100

ContractValues(contracts) ==
    [i \in 1..Len(contracts) |-> contracts[i].lastPrice * contracts[i].contractSize]

ContractMargins(contracts) ==
    [i \in 1..Len(contracts) |-> ContractMargin(contracts[i])]

\* the clock is read even when the caller supplied a timestamp
SummaryTimestampClockOnly(lastUpdated, now) == now

\* lastUpdated || new Date().toISOString(); an omitted argument is ""
SummaryTimestamp(lastUpdated, now) == IF lastUpdated # "" THEN lastUpdated ELSE now

calculatePortfolioSummary(secs, contracts, balances, lastUpdated, now) ==
    LET securitiesValue == SumSeq(Field(SelectSeq(secs, NotFutures), "currentValue"))
        futuresValue == SumSeq(ContractValues(contracts))
        cashValue == SumSeq(Field(balances, "usdEquivalent"))
        totalValue == securitiesValue + futuresValue + cashValue
        totalGainLoss == SumSeq(Field(secs, "gainLoss"))
        totalGainLossPercent == IF totalValue > 0
                                THEN Pct(totalGainLoss, totalValue - totalGainLoss)
                                ELSE Pct(0, 1)
        totalMarginUsed == SumSeq(ContractMargins(contracts))
        availableMargin == cashValue - totalMarginUsed
        marginUtilizationPercent == IF cashValue > 0
                                    THEN Pct(totalMarginUsed, cashValue)
                                    ELSE Pct(0, 1)
    IN  [totalValue |-> totalValue,
         totalGainLoss |-> totalGainLoss,
         totalGainLossPercent |-> totalGainLossPercent,
         cashValue |-> cashValue,
         securitiesValue |-> securitiesValue,
         futuresValue |-> futuresValue,
         totalMarginUsed |-> totalMarginUsed,
         availableMargin |-> availableMargin,
         marginUtilizationPercent |-> marginUtilizationPercent,
         unrealizedPnL |-> totalGainLoss,
         lastUpdated |-> SummaryTimestamp(lastUpdated, now)]

(***************************************************************************)
(* Risk: calculateRiskMetrics, calculations.ts:491-581                     *)
(* The fields derived from the simulated return series (volatility,        *)
(* sharpeRatio, maxDrawdown) are not part of the record here.              *)
(***************************************************************************)
\* betas in tenths
mockBetas ==
    [sym \in {"AAPL", "MSFT", "VOO", "TSLA", "JPM", "ES", "GC"} |->
        CASE sym = "AAPL" -> 12
          [] sym = "MSFT" -> 11
          [] sym = "VOO" -> 10
          [] sym = "TSLA" -> 18
          [] sym = "JPM" -> 9
          [] sym = "ES" -> 10
          [] sym = "GC" -> 0]

\* mockBetas[s.symbol] || 1.0: a table value of 0 is replaced by the default
BetaOfOrDefault(symbol) ==
    IF symbol \in DOMAIN mockBetas /\ mockBetas[symbol] # 0 THEN mockBetas[symbol] ELSE 10

\* mockBetas[s.symbol] ?? 1.0
BetaOf(symbol) == IF symbol \in DOMAIN mockBetas THEN mockBetas[symbol] ELSE 10

RiskTotalValue(secs) == SumSeq(Field(secs, "currentValue"))

\* only the empty list is treated as degenerate
RiskThrowsOnEmptyOnly(secs) == secs = <<>>

\* if (totalValue === 0) throw new Error("Portfolio has zero value")
RiskThrows(secs) == RiskTotalValue(secs) = 0

NoMetrics == [delta |-> Frac(0, 1), beta |-> NaN, marginUtilization |-> NaN,
              leverageRatio |-> NaN, futuresExposure |-> NaN]

RiskValue(secs) ==
    LET totalValue == RiskTotalValue(secs)
        weighted == [i \in 1..Len(secs) |-> secs[i].currentValue * BetaOf(secs[i].symbol)]
        futures == SelectSeq(secs, IsFutures)
        futuresValue == SumSeq(Field(futures, "currentValue"))
        marginUsed == SumSeq(Field(futures, "marginUsed"))
    IN  [delta |-> Frac(85, 100),
         beta |-> Frac(SumSeq(weighted), totalValue * 10),
         marginUtilization |-> Frac(marginUsed, totalValue),
         leverageRatio |-> Frac(totalValue, totalValue - marginUsed),
         futuresExposure |-> Frac(futuresValue, totalValue)]

\* the call either throws or returns the metrics
calculateRiskMetrics(secs) ==
    IF RiskThrows(secs)
    THEN [thrown |-> TRUE, error |-> "Portfolio has zero value", value |-> NoMetrics]
    ELSE [thrown |-> FALSE, error |-> "none", value |-> RiskValue(secs)]

(***************************************************************************)
(* The return series of calculateRiskMetrics, calculations.ts:505-550.     *)
(* A daily return is held in tenths, a portfolio return and what is        *)
(* derived from it as an exact fraction, the volatility as its square.     *)
(***************************************************************************)
FracNeg(a) == [n |-> -a.n, d |-> a.d]

FracAdd(a, b) ==
    LET g == GCD(a.d, b.d)
    IN  Frac(a.n * (b.d \div g) + b.n * (a.d \div g), (a.d \div g) * b.d)

FracMul(a, b) ==
    LET g1 == GCD(Abs(a.n), b.d)
        g2 == GCD(Abs(b.n), a.d)
    IN  Frac((a.n \div g1) * (b.n \div g2), (a.d \div g2) * (b.d \div g1))

\* a / b for b > 0
FracDiv(a, b) == FracMul(a, [n |-> b.d, d |-> b.n])

FracLess(a, b) ==
    LET g == GCD(a.d, b.d)
    IN  a.n * (b.d \div g) < b.n * (a.d \div g)

FracMin(a, b) == IF FracLess(b, a) THEN b ELSE a

FracMax(a, b) == IF FracLess(a, b) THEN b ELSE a

RECURSIVE FracSum(_)
FracSum(s) == IF s = <<>> THEN Frac(0, 1) ELSE FracAdd(Head(s), FracSum(Tail(s)))

\* Math.sqrt(days) for the day counts used here (perfect squares)
Root(days) == CHOOSE r \in 0..days : r * r = days

\* createMockHistoricalReturns(days, mean, stdDev): days returns
\* mean / days + stdDev * rand / sqrt(days), in tenths; mean and stdDev are in
\* hundredths and rand[i], the i-th draw of (Math.random() - 0.5) * 2, in tenths
createMockHistoricalReturns(days, mean, stdDev, rand) ==
    [i \in 1..days |-> (10 * mean) \div (100 * days) + (stdDev * rand[i]) \div (100 * Root(days))]

\* the forEach of lines 505-512: a security without historicalReturns is
\* given a generated series of holdingPeriod days (an empty array is kept)
WithHistoricalReturns(secs, rand) ==
    [j \in 1..Len(secs) |->
        IF "historicalReturns" \in DOMAIN secs[j] THEN secs[j]
        ELSE secs[j] @@ ("historicalReturns" :>
                 createMockHistoricalReturns(secs[j].holdingPeriod, 8, 20, [i \in 1..secs[j].holdingPeriod |-> rand[j]]))]

Min2(a, b) == IF a < b THEN a ELSE b

RECURSIVE MinOf(_)
\* Math.min(...lengths) of a non-empty array
MinOf(lengths) ==
    IF Len(lengths) = 1 THEN lengths[1] ELSE Min2(Head(lengths), MinOf(Tail(lengths)))

\* Math.min(...securities.map(s => s.historicalReturns?.length || 0))
MinLengthFirstOnly(secs) == Len(secs[1].historicalReturns)

MinLength(secs) == MinOf([j \in 1..Len(secs) |-> Len(secs[j].historicalReturns)])

\* s.historicalReturns?.[i] ?? 0
ReturnAt(s, i) == IF i <= Len(s.historicalReturns) THEN s.historicalReturns[i] ELSE 0

\* lines 517-529: n = 365 elements at most, each the weighted sum of the
\* positions' returns at that index, the weight being currentValue / totalValue
PortfolioReturns(secs) ==
    LET totalValue == RiskTotalValue(secs)
    IN  [i \in 1..Min2(365, MinLength(secs)) |->
            Frac(SumSeq([j \in 1..Len(secs) |-> ReturnAt(secs[j], i) * secs[j].currentValue]),
                 10 * totalValue)]

\* line 532: the sum of the returns over n = 365, whatever their number
MeanReturn(returns) ==
    LET sum == FracSum(returns)
    IN  Frac(sum.n, sum.d * 365)

\* lines 533-534: volatility = sqrt(variance * 365) with variance the sum of
\* the squared deviations over n = 365; the value here is volatility squared
VolatilitySquared(returns) ==
    LET mean == MeanReturn(returns)
        deviation(r) == FracAdd(r, FracNeg(mean))
    IN  FracSum([i \in 1..Len(returns) |-> FracMul(deviation(returns[i]), deviation(returns[i]))])

\* lines 537-539: annualReturn - riskFreeRate, the dividend of the Sharpe ratio
ExcessReturn(returns) ==
    LET mean == MeanReturn(returns)
    IN  FracAdd(FracMul(mean, Frac(252, 1)), Frac(-5, 100))

RECURSIVE DrawdownLoopFixedPeak(_, _, _, _)
\* the loop without line 547: the peak stays at 1
DrawdownLoopFixedPeak(returns, value, peak, maxDD) ==
    IF returns = <<>> THEN maxDD
    ELSE LET v == FracMul(value, FracAdd(Frac(1, 1), Head(returns)))
         IN  DrawdownLoopFixedPeak(Tail(returns), v, peak,
                                   FracMin(maxDD, FracDiv(FracAdd(v, FracNeg(peak)), peak)))

RECURSIVE DrawdownLoop(_, _, _, _)
\* lines 545-549: value *= 1 + r; peak = max(peak, value);
\* maxDD = min(maxDD, (value - peak) / peak)
DrawdownLoop(returns, value, peak, maxDD) ==
    IF returns = <<>> THEN maxDD
    ELSE LET v == FracMul(value, FracAdd(Frac(1, 1), Head(returns)))
             p == FracMax(peak, v)
         IN  DrawdownLoop(Tail(returns), v, p, FracMin(maxDD, FracDiv(FracAdd(v, FracNeg(p)), p)))

\* lines 542-550: peak = 1, maxDD = 0, value = 1
MaxDrawdown(returns) == DrawdownLoop(returns, Frac(1, 1), Frac(1, 1), Frac(0, 1))

\* the series-derived part of a call of calculateRiskMetrics: the securities
\* as the call leaves them, the series and the metrics computed from it
RiskSeriesValue(secs, rand) ==
    LET filled == WithHistoricalReturns(secs, rand)
        returns == PortfolioReturns(filled)
        excess == ExcessReturn(returns)
        volatilitySquared == VolatilitySquared(returns)
    IN  [securities |-> filled,
         portfolioReturns |-> returns,
         volatilitySquared |-> volatilitySquared,
         sharpeRatio |-> IF volatilitySquared.n = 0 THEN Frac(excess.n, 0)
                         ELSE [dividend |-> excess, divisorSquared |-> volatilitySquared],
         maxDrawdown |-> MaxDrawdown(returns)]

(***************************************************************************)
(* Initial data: src/src/data/mockData.ts                                  *)
(***************************************************************************)
Stock(id, name, type, symbol, quantity, buyPrice, buyValue, currentPrice, currentValue, gainLoss, glpHundredths, holdingPeriod) ==
    [id |-> id, name |-> name, type |-> type, symbol |-> symbol,
     quantity |-> quantity, buyPrice |-> buyPrice, buyValue |-> buyValue,
     currentPrice |-> currentPrice, currentValue |-> currentValue,
     gainLoss |-> gainLoss, gainLossPercent |-> Frac(glpHundredths, 10000),
     holdingPeriod |-> holdingPeriod,
     contractSize |-> 0, marginUsed |-> 0, positionType |-> "NONE"]

Future(id, name, symbol, quantity, buyPrice, buyValue, currentPrice, currentValue, gainLoss, glpHundredths, holdingPeriod, contractSize, marginUsed, positionType) ==
    [id |-> id, name |-> name, type |-> "FUTURES", symbol |-> symbol,
     quantity |-> quantity, buyPrice |-> buyPrice, buyValue |-> buyValue,
     currentPrice |-> currentPrice, currentValue |-> currentValue,
     gainLoss |-> gainLoss, gainLossPercent |-> Frac(glpHundredths, 10000),
     holdingPeriod |-> holdingPeriod,
     contractSize |-> contractSize, marginUsed |-> marginUsed,
     positionType |-> positionType]

mockSecurities ==
    << Stock("1", "Apple Inc.", "STOCK", "AAPL", 100, 15000, 1500000, 17550, 1755000, 255000, 1700, 180),
       Stock("2", "Microsoft Corporation", "STOCK", "MSFT", 75, 28000, 2100000, 32000, 2400000, 300000, 1429, 120),
       Stock("3", "Vanguard S&P 500 ETF", "ETF", "VOO", 50, 38000, 1900000, 39500, 1975000, 75000, 395, 320),
       Stock("4", "Tesla Inc.", "STOCK", "TSLA", 25, 20000, 500000, 18000, 450000, -50000, -1000, 90),
       Stock("5", "JPMorgan Chase & Co.", "STOCK", "JPM", 60, 14000, 840000, 15500, 930000, 90000, 1071, 150),
       Future("6", "E-mini S&P 500 Futures", "ES", 2, 420000, 42000000, 425000, 42500000, 500000, 119, 30,
              50, 2100000, "LONG"),
       Future("7", "Gold Futures", "GC", 1, 195000, 19500000, 192000, 19200000, -300000, -154, 45,
              100, 1560000, "LONG") >>

Trade(securityName, type, quantity, price) ==
    [securityName |-> securityName, type |-> type, quantity |-> quantity,
     price |-> price, value |-> quantity * price]

mockTrades ==
    << Trade("Apple Inc.", "BUY", 100, 15000),
       Trade("Microsoft Corporation", "BUY", 75, 28000),
       Trade("Vanguard S&P 500 ETF", "BUY", 50, 38000),
       Trade("Tesla Inc.", "BUY", 25, 20000),
       Trade("JPMorgan Chase & Co.", "BUY", 60, 14000),
       [Trade("E-mini S&P 500 Futures", "LONG_FUTURES", 2, 420000) EXCEPT !.value = 42000000],
       [Trade("Gold Futures", "LONG_FUTURES", 1, 195000) EXCEPT !.value = 19500000] >>

mockCashBalances ==
    << [currency |-> "USD", amount |-> 2500000, usdEquivalent |-> 2500000, exchangeRate |-> 100000],
       [currency |-> "EUR", amount |-> 1500000, usdEquivalent |-> 1620000, exchangeRate |-> 108000],
       [currency |-> "GBP", amount |-> 1200000, usdEquivalent |-> 1500000, exchangeRate |-> 125000],
       [currency |-> "JPY", amount |-> 200000000, usdEquivalent |-> 1350000, exchangeRate |-> 675] >>

mockRiskMetrics ==
    [delta |-> Frac(85, 100), beta |-> Frac(112, 100), marginUtilization |-> Frac(35, 100),
     leverageRatio |-> Frac(285, 100), futuresExposure |-> Frac(42, 100)]

mockLastUpdated == "2025-01-20T19:41:50.000Z"

mockPortfolioSummary ==
    [totalValue |-> 10000000,
     totalGainLoss |-> 670000,
     totalGainLossPercent |-> Frac(718, 10000),
     cashValue |-> 6970000,
     securitiesValue |-> 3030000,
     lastUpdated |-> mockLastUpdated,
     futuresValue |-> 61700000,
     totalMarginUsed |-> 3660000,
     availableMargin |-> 3340000,
     marginUtilizationPercent |-> Frac(523, 1000),
     unrealizedPnL |-> 200000]

\* closing prices in cents
mockClosingPrices ==
    [sym \in {"AAPL", "MSFT", "VOO", "TSLA", "JPM", "ES", "GC"} |->
        CASE sym = "AAPL" -> 17550
          [] sym = "MSFT" -> 32000
          [] sym = "VOO" -> 39500
          [] sym = "TSLA" -> 18000
          [] sym = "JPM" -> 15500
          [] sym = "ES" -> 425000
          [] sym = "GC" -> 192000]

\* marginRequirement in percent
mockFuturesContracts ==
    << [id |-> "ES1", symbol |-> "ES", contractSize |-> 50, marginRequirement |-> 5,
        currentPrice |-> 425000, lastPrice |-> 424850],
       [id |-> "GC1", symbol |-> "GC", contractSize |-> 100, marginRequirement |-> 8,
        currentPrice |-> 192000, lastPrice |-> 192250],
       [id |-> "CL1", symbol |-> "CL", contractSize |-> 1000, marginRequirement |-> 10,
        currentPrice |-> 7550, lastPrice |-> 7525],
       [id |-> "NQ1", symbol |-> "NQ", contractSize |-> 20, marginRequirement |-> 6,
        currentPrice |-> 1685000, lastPrice |-> 1684500] >>

\* tickSize and tickValue in cents
mockFuturesPositions ==
    << [id |-> "pos1", symbol |-> "ES", name |-> "E-mini S&P 500 Futures", positionType |-> "LONG",
        quantity |-> 2, entryPrice |-> 420000, currentPrice |-> 425000, markToMarket |-> 42500000,
        unrealizedPnL |-> 500000, marginUsed |-> 2100000, tickSize |-> 25, tickValue |-> 1250],
       [id |-> "pos2", symbol |-> "GC", name |-> "Gold Futures", positionType |-> "LONG",
        quantity |-> 1, entryPrice |-> 195000, currentPrice |-> 192000, markToMarket |-> 19200000,
        unrealizedPnL |-> -300000, marginUsed |-> 1560000, tickSize |-> 10, tickValue |-> 1000] >>

\* the direction of the position is ignored
calculateFuturesPnLNoDirection(position, currentPrice) ==
    Frac((currentPrice - position.entryPrice) * position.quantity * position.tickValue,
         position.tickSize)

\* calculateFuturesPnL, calculations.ts:596-604: the product is formed left
\* to right and divided by tickSize last
calculateFuturesPnL(position, currentPrice) ==
    IF position.positionType = "LONG"
    THEN Frac((currentPrice - position.entryPrice) * position.quantity * position.tickValue,
              position.tickSize)
    ELSE Frac((position.entryPrice - currentPrice) * position.quantity * position.tickValue,
              position.tickSize)

NoCall == [fn |-> "none"]

\* the state after the first render of PortfolioDashboard (page.tsx:93-147)
AppInit ==
    /\ securities = mockSecurities
    /\ trades = mockTrades
    /\ cashBalances = mockCashBalances
    /\ portfolioSummary = mockPortfolioSummary
    /\ riskMetrics = mockRiskMetrics
    /\ futuresPositions = mockFuturesPositions
    /\ interval = "unset"
    /\ effectPending = TRUE
    /\ timeouts = <<>>
    /\ passError = "none"
    /\ lastAlert = "none"
    /\ ticks = 0

Init == AppInit /\ call = NoCall

(***************************************************************************)
(* Direct calls of the engine functions with arguments drawn from small    *)
(* sets.                                                                   *)
(***************************************************************************)
MaxLen == 2

CallKinds ==
    { [type |-> "STOCK", symbol |-> "AAPL", contractSize |-> 0, positionType |-> "NONE"],
      [type |-> "FUTURES", symbol |-> "ES", contractSize |-> 50, positionType |-> "LONG"],
      [type |-> "FUTURES", symbol |-> "ES", contractSize |-> 50, positionType |-> "SHORT"] }

\* a position as a caller may hand it in: the derived fields hold whatever
\* the last valuation left there
CallPosition(k, quantity, currentPrice, withBasis) ==
    LET units == IF k.type = "FUTURES" THEN quantity * k.contractSize ELSE quantity
    IN  [id |-> "c", name |-> k.symbol, type |-> k.type, symbol |-> k.symbol,
         quantity |-> quantity, buyPrice |-> 4200,
         buyValue |-> IF withBasis THEN Abs(units) * 4200 ELSE 0,
         currentPrice |-> currentPrice, currentValue |-> units * currentPrice,
         gainLoss |-> units * (currentPrice - 4200),
         gainLossPercent |-> Frac(0, 1), holdingPeriod |-> 0,
         contractSize |-> k.contractSize,
         marginUsed |-> IF k.type = "FUTURES" THEN 21000 ELSE 0,
         positionType |-> k.positionType]

CallPositions ==
    { CallPosition(k, q, p, b) : k \in CallKinds, q \in {2, -2}, p \in {4200, 4250}, b \in BOOLEAN }

RECURSIVE SeqsUpTo(_, _)
SeqsUpTo(S, n) ==
    IF n = 0 THEN { <<>> }
    ELSE LET shorter == SeqsUpTo(S, n - 1)
         IN  shorter \cup { Append(s, x) : s \in shorter, x \in S }

CallPositionLists == SeqsUpTo(CallPositions, MaxLen)

CallPriceMaps ==
    { <<>>,
      [sym \in {"ES"} |-> 4250],
      [sym \in {"ES"} |-> 0],
      [sym \in {"AAPL", "ES"} |-> 4300] }

CallCashLists ==
    { <<>>,
      << [currency |-> "USD", amount |-> 25000, usdEquivalent |-> 25000, exchangeRate |-> 100000] >>,
      << [currency |-> "USD", amount |-> 10000, usdEquivalent |-> 10000, exchangeRate |-> 100000],
         [currency |-> "EUR", amount |-> 15000, usdEquivalent |-> 16200, exchangeRate |-> 108000] >> }

CallContractLists == { <<>>, mockFuturesContracts }

CallMTM ==
    /\ call.fn = "none"
    /\ \E P \in CallPositionLists, M \in CallPriceMaps :
          call' = [fn |-> "calculateMTM", P |-> P, M |-> M, out |-> calculateMTM(P, M)]
    /\ UNCHANGED appVars

\* the result of a call is marked again with the same prices
CallMTMAgain ==
    /\ call.fn = "calculateMTM"
    /\ call' = [fn |-> "calculateMTM2", P |-> call.P, M |-> call.M, first |-> call.out,
                out |-> calculateMTM(call.out, call.M)]
    /\ UNCHANGED appVars

CallSummary ==
    /\ call.fn = "none"
    /\ \E P \in CallPositionLists, F \in CallContractLists, C \in CallCashLists,
          ts \in {"", mockLastUpdated} :
          call' = [fn |-> "calculatePortfolioSummary", P |-> P, F |-> F, C |-> C, ts |-> ts,
                   out |-> calculatePortfolioSummary(P, F, C, ts, "now")]
    /\ UNCHANGED appVars

\* the positions handed to the risk computation: those above, a gold futures
\* position and a stock whose symbol the beta table does not list
CallRiskPositions ==
    CallPositions
      \cup { CallPosition([type |-> "FUTURES", symbol |-> "GC", contractSize |-> 100,
                           positionType |-> "LONG"], 2, 4250, TRUE),
             CallPosition([type |-> "STOCK", symbol |-> "XOM", contractSize |-> 0,
                           positionType |-> "NONE"], 2, 4250, TRUE) }

CallRiskLists == SeqsUpTo(CallRiskPositions, MaxLen)

CallRisk ==
    /\ call.fn = "none"
    /\ \E P \in CallRiskLists :
          call' = [fn |-> "calculateRiskMetrics", P |-> P, out |-> calculateRiskMetrics(P)]
    /\ UNCHANGED appVars

\* the return series a caller may supply (in tenths), besides leaving it out
CallReturnSeries == { <<>>, <<5>>, <<0, 0>>, <<5, -5>>, <<-5, 5>> }

\* positions for the series: AAPL stock worth 1, 2 or -1, either with a series
\* or without one and held for 0 days or 1 day
CallSeriesKind == [type |-> "STOCK", symbol |-> "AAPL", contractSize |-> 0, positionType |-> "NONE"]

CallSeriesPositions ==
    { [CallPosition(CallSeriesKind, v, 1, TRUE) EXCEPT !.holdingPeriod = h] : v \in {1, 2, -1}, h \in {0, 1} }
      \cup { CallPosition(CallSeriesKind, v, 1, TRUE) @@ ("historicalReturns" :> r) :
                 v \in {1, 2, -1}, r \in CallReturnSeries }

CallSeriesLists == SeqsUpTo(CallSeriesPositions, MaxLen) \ { <<>> }

\* the draws of (Math.random() - 0.5) * 2, in tenths, one per position
CallRands == {-9, 6}

\* calculateRiskMetrics(securities), lines 502-550: the throw on a zero total,
\* else the series and the metrics derived from it
CallRiskSeries ==
    /\ call.fn = "none"
    /\ \E P \in CallSeriesLists : \E rand \in [1..Len(P) -> CallRands] :
          call' = [fn |-> "calculateRiskMetrics.series", P |-> P,
                   out |-> IF RiskThrows(P) THEN [thrown |-> TRUE]
                           ELSE [thrown |-> FALSE] @@ RiskSeriesValue(P, rand)]
    /\ UNCHANGED appVars

\* the futures positions a caller may hold: the initial ones and one opened
\* through the trade form, in either direction
CallFuturesPositions ==
    { [p EXCEPT !.positionType = d, !.quantity = q] :
        p \in { mockFuturesPositions[i] : i \in 1..Len(mockFuturesPositions) }
               \cup { [id |-> "t1", symbol |-> "ITC", name |-> "Index - ITC",
                       positionType |-> "LONG", quantity |-> 2, entryPrice |-> 100000,
                       currentPrice |-> 100000, markToMarket |-> 200000,
                       unrealizedPnL |-> 0, marginUsed |-> 20000,
                       tickSize |-> 1, tickValue |-> 1] },
        d \in {"LONG", "SHORT"}, q \in {1, 2, 3} }

\* the prices a position is valued at: its entry price and one tick, or one
\* cent, to either side
CallFuturesPrices(position) ==
    { position.entryPrice, position.entryPrice + position.tickSize,
      position.entryPrice - position.tickSize, position.entryPrice + 1,
      position.entryPrice - 1, position.currentPrice }

Opposite(position) ==
    [position EXCEPT !.positionType = IF @ = "LONG" THEN "SHORT" ELSE "LONG"]

\* the position and its mirror image are valued at the same price
CallFuturesPnL ==
    /\ call.fn = "none"
    /\ \E position \in CallFuturesPositions :
          \E currentPrice \in CallFuturesPrices(position) :
              call' = [fn |-> "calculateFuturesPnL", position |-> position,
                       currentPrice |-> currentPrice,
                       out |-> calculateFuturesPnL(position, currentPrice),
                       mirror |-> calculateFuturesPnL(Opposite(position), currentPrice)]
    /\ UNCHANGED appVars

CalcNext == CallMTM \/ CallMTMAgain \/ CallSummary \/ CallRisk \/ CallRiskSeries \/ CallFuturesPnL

SpecCalc == Init /\ [][CalcNext]_vars

(***************************************************************************)
(* The price simulator (calculations.ts:466-489, 584-594; page.tsx:155-172)*)
(* A tick's Math.random() draws are one value u, in thousandths.           *)
(***************************************************************************)
Draws == {0, 999}

\* buyPrice * (1 + (u * 0.2 - 0.1)), toFixed(2)
SimulatedPrice(buyPrice, u) == buyPrice + RoundDiv(buyPrice * (2 * u - 1000), 10000)

updateSecurities(secs, u) ==
    [i \in 1..Len(secs) |->
        LET security == secs[i]
            newPrice == SimulatedPrice(security.buyPrice, u)
            newValue == newPrice * security.quantity
            gainLoss == newValue - security.buyValue
        IN  [security EXCEPT !.currentPrice = newPrice,
                             !.currentValue = newValue,
                             !.gainLoss = gainLoss,
                             !.gainLossPercent = RoundPct(gainLoss, security.buyValue)]]

\* exchangeRate * (1 + (u - 0.5) * 0.02)
SimulatedRate(rate, u) == rate + RoundDiv(rate * (2 * (u - 500)), 100000)

updateExchangeRates(balances, u) ==
    [i \in 1..Len(balances) |->
        LET b == balances[i]
            newRate == SimulatedRate(b.exchangeRate, u)
        IN  [b EXCEPT !.exchangeRate = newRate,
                      !.usdEquivalent = MulRate(b.amount, newRate)]]

\* the direction-signed price move times the quantity (page.tsx:161-163,
\* 183-185, 469-471)
PositionPnL(position, price) ==
    IF position.positionType = "LONG"
    THEN (price - position.entryPrice) * position.quantity
    ELSE (position.entryPrice - price) * position.quantity

\* the variation is applied to the current price: the price walks away from
\* the entry price
updateFuturesPositionsFromCurrent(positions, u) ==
    [i \in 1..Len(positions) |->
        LET position == positions[i]
            newPrice == position.currentPrice + RoundDiv(position.currentPrice * (u - 500), 100000)
        IN  [position EXCEPT !.currentPrice = newPrice,
                             !.markToMarket = position.quantity * newPrice,
                             !.unrealizedPnL = PositionPnL(position, newPrice)]]

\* entryPrice * (1 + (u - 0.5) * 0.01)
updateFuturesPositions(positions, u) ==
    [i \in 1..Len(positions) |->
        LET position == positions[i]
            newPrice == position.entryPrice + RoundDiv(position.entryPrice * (u - 500), 100000)
        IN  [position EXCEPT !.currentPrice = newPrice,
                             !.markToMarket = position.quantity * newPrice,
                             !.unrealizedPnL = PositionPnL(position, newPrice)]]

(***************************************************************************)
(* recalculatePortfolio, page.tsx:178-200                                  *)
(***************************************************************************)
PositionValues(positions) ==
    [i \in 1..Len(positions) |-> positions[i].quantity * positions[i].currentPrice]

PositionPnLs(positions) ==
    [i \in 1..Len(positions) |-> PositionPnL(positions[i], positions[i].currentPrice)]

UpdatedSummary(secs, balances, positions, lastUpdated) ==
    LET summary == calculatePortfolioSummary(secs, mockFuturesContracts, balances, lastUpdated, "now")
        totalMarginUsed == SumSeq(Field(positions, "marginUsed"))
    IN  [summary EXCEPT !.futuresValue = SumSeq(PositionValues(positions)),
                        !.totalMarginUsed = totalMarginUsed,
                        !.availableMargin = summary.cashValue - totalMarginUsed,
                        !.unrealizedPnL = SumSeq(PositionPnLs(positions))]

\* One pass over the state a closure sees: setPortfolioSummary(updatedSummary)
\* is called first; calculateRiskMetrics then returns, and setRiskMetrics is
\* called, or throws out of the pass.
Recalculate(closure) ==
    LET risk == calculateRiskMetrics(closure.securities)
    IN  /\ portfolioSummary' = UpdatedSummary(closure.securities, closure.cashBalances,
                                              closure.futuresPositions, closure.lastUpdated)
        /\ riskMetrics' = IF risk.thrown THEN riskMetrics ELSE risk.value
        /\ passError' = risk.error

\* the closure of a pass that calls calculatePortfolioSummary without its
\* fourth argument
ClosureWithoutLastUpdated ==
    [securities |-> securities, cashBalances |-> cashBalances,
     futuresPositions |-> futuresPositions, lastUpdated |-> ""]

\* what a function created during the current render closes over
Closure ==
    [securities |-> securities, cashBalances |-> cashBalances,
     futuresPositions |-> futuresPositions, lastUpdated |-> portfolioSummary.lastUpdated]

\* the timer keeps firing after the cleanup ran
MountedAfterCleanup == interval \in {"active", "cleared"}

\* the interval timer is set and was not cleared
Mounted == interval = "active"

\* no effect or zero-delay timeout is waiting: the next event can be handled
Idle == Mounted /\ ~effectPending /\ timeouts = <<>>

(***************************************************************************)
(* Effects and timers, page.tsx:150-176, 202-204                           *)
(***************************************************************************)
MaxTicks == 1
MaxTrades == 2

\* the first effect after mount: setInterval(..., 10000)
StartInterval ==
    /\ interval = "unset"
    /\ interval' = "active"
    /\ UNCHANGED <<securities, trades, cashBalances, portfolioSummary, riskMetrics,
                   futuresPositions, effectPending, timeouts, passError, lastAlert, ticks, call>>

\* the dependency of the recompute effect that a pass can change: a pass
\* sets only portfolioSummary and riskMetrics, and of these the effect
\* depends on portfolioSummary.lastUpdated (page.tsx:204)
DependencyChanged == portfolioSummary'.lastUpdated # portfolioSummary.lastUpdated

\* useEffect(() => recalculatePortfolio(), [securities, cashBalances,
\* futuresPositions, portfolioSummary.lastUpdated])
RecalcEffect ==
    /\ Mounted
    /\ effectPending
    /\ Recalculate(Closure)
    /\ effectPending' = DependencyChanged
    /\ UNCHANGED <<securities, trades, cashBalances, futuresPositions, interval,
                   timeouts, lastAlert, ticks, call>>

\* the callback of setTimeout(() => recalculatePortfolio(), 0): the pass runs
\* over the state of the render that created the callback
RecalcTimeout ==
    /\ Mounted
    /\ ~effectPending
    /\ timeouts # <<>>
    /\ Recalculate(Head(timeouts))
    /\ timeouts' = Tail(timeouts)
    /\ effectPending' = DependencyChanged
    /\ UNCHANGED <<securities, trades, cashBalances, futuresPositions, interval,
                   lastAlert, ticks, call>>

\* the same callback after the dashboard was unmounted: the timeout is not
\* cancelled by the cleanup, the state setters no longer have an effect
RecalcTimeoutUnmounted ==
    /\ interval = "cleared"
    /\ timeouts # <<>>
    /\ passError' = calculateRiskMetrics(Head(timeouts).securities).error
    /\ timeouts' = Tail(timeouts)
    /\ UNCHANGED <<securities, trades, cashBalances, portfolioSummary, riskMetrics,
                   futuresPositions, interval, effectPending, lastAlert, ticks, call>>

\* the interval callback
Tick ==
    /\ Mounted
    /\ ~effectPending
    /\ ticks < MaxTicks
    /\ \E u \in Draws :
          /\ securities' = updateSecurities(securities, u)
          /\ cashBalances' = updateExchangeRates(cashBalances, u)
          /\ futuresPositions' = updateFuturesPositions(futuresPositions, u)
    /\ effectPending' = TRUE
    /\ ticks' = ticks + 1
    /\ UNCHANGED <<trades, portfolioSummary, riskMetrics, interval, timeouts,
                   passError, lastAlert, call>>

\* the cleanup of the interval effect: clearInterval(interval)
Unmount ==
    /\ Mounted
    /\ interval' = "cleared"
    /\ effectPending' = FALSE
    /\ UNCHANGED <<securities, trades, cashBalances, portfolioSummary, riskMetrics,
                   futuresPositions, timeouts, passError, lastAlert, ticks, call>>

(***************************************************************************)
(* Event handlers, page.tsx:206-296, 312-397, 466-511                      *)
(***************************************************************************)
\* Date.now().toString(): a fresh identifier per handled trade
NewId == "t" \o ToString(Len(trades) + 1)

CanTrade == Idle /\ Len(trades) < Len(mockTrades) + MaxTrades

\* what the user may have typed into the stock trade form
AddTradeForms ==
    { [securityName |-> "Tesla Inc.", type |-> "SELL", quantity |-> 25, price |-> 20000],
      [securityName |-> "XOM Energy", type |-> "BUY", quantity |-> 25, price |-> 20000] }

\* trade.securityName.split(' ')[0]
FirstWord(name) ==
    CASE name = "Tesla Inc." -> "Tesla"
      [] name = "XOM Energy" -> "XOM"
      [] OTHER -> name

\* securities.findIndex(s => s.name === name), 0 for -1
RECURSIVE FindIndexFrom(_, _, _)
FindIndexFrom(secs, name, i) ==
    IF i > Len(secs) THEN 0
    ELSE IF secs[i].name = name THEN i
    ELSE FindIndexFrom(secs, name, i + 1)

FindIndex(secs, name) == FindIndexFrom(secs, name, 1)

NewSecurity(trade) ==
    [id |-> NewId, name |-> trade.securityName, type |-> "STOCK",
     symbol |-> FirstWord(trade.securityName),
     quantity |-> trade.quantity, buyPrice |-> trade.price, buyValue |-> trade.value,
     currentPrice |-> trade.price, currentValue |-> trade.value,
     gainLoss |-> 0, gainLossPercent |-> Frac(0, 1), holdingPeriod |-> 0,
     contractSize |-> 0, marginUsed |-> 0, positionType |-> "NONE"]

\* the quantity of the held security is changed in place
AdjustQuantity(secs, idx, trade) ==
    [secs EXCEPT ![idx].quantity =
        IF trade.type = "BUY" THEN @ + trade.quantity
        ELSE IF trade.type = "SELL" THEN @ - trade.quantity
        ELSE @]

handleAddTrade ==
    /\ CanTrade
    /\ \E newTrade \in AddTradeForms :
          LET trade == Trade(newTrade.securityName, newTrade.type, newTrade.quantity, newTrade.price)
              idx == FindIndex(securities, trade.securityName)
              updated == IF idx = 0 THEN Append(securities, NewSecurity(trade))
                         ELSE AdjustQuantity(securities, idx, trade)
              \* the callback sees the array of this render; the objects
              \* in it are the ones that were changed in place
              seen == IF idx = 0 THEN securities ELSE updated
          IN  /\ newTrade.quantity > 0 /\ newTrade.price > 0
              /\ trades' = Append(trades, trade)
              /\ securities' = updated
              /\ timeouts' = Append(timeouts, [Closure EXCEPT !.securities = seen])
    /\ effectPending' = TRUE
    /\ UNCHANGED <<cashBalances, portfolioSummary, riskMetrics, futuresPositions,
                   interval, passError, lastAlert, ticks, call>>

RECURSIVE Without(_, _)
\* prev.filter(x => x.id !== id)
Without(s, id) ==
    IF s = <<>> THEN <<>>
    ELSE IF Head(s).id = id THEN Without(Tail(s), id)
    ELSE <<Head(s)>> \o Without(Tail(s), id)

\* the rows of the holdings table whose Sell button the user may click
SellRows == {1}

\* holdings are sold before any trade is entered
handleSell ==
    /\ Idle
    /\ Len(trades) = Len(mockTrades)
    /\ \E i \in SellRows \cap (1..Len(securities)) :
          securities' = Without(securities, securities[i].id)
    /\ effectPending' = TRUE
    /\ UNCHANGED <<trades, cashBalances, portfolioSummary, riskMetrics, futuresPositions,
                   interval, timeouts, passError, lastAlert, ticks, call>>

\* what the user may have entered into the futures form, with the market
\* price handleSymbolChange drew for the symbol (page.tsx:436-454)
FuturesTradeForms ==
    { [symbol |-> "ITC", positionType |-> "LONG", quantity |-> 2,
       currentMarketPrice |-> 100000, leverage |-> 50],
      [symbol |-> "ITC", positionType |-> "SHORT", quantity |-> 400,
       currentMarketPrice |-> 100000, leverage |-> 10] }

InsufficientCash == "Insufficient cash for margin requirement"

\* the USD balance is debited but never credited
AdjustUSDDebitsOnly(balances, delta) ==
    [i \in 1..Len(balances) |->
        IF balances[i].currency = "USD" /\ delta < 0
        THEN [balances[i] EXCEPT !.amount = @ + delta, !.usdEquivalent = @ + delta]
        ELSE balances[i]]

\* balance.amount + delta and balance.usdEquivalent + delta on the USD balance
AdjustUSD(balances, delta) ==
    [i \in 1..Len(balances) |->
        IF balances[i].currency = "USD"
        THEN [balances[i] EXCEPT !.amount = @ + delta, !.usdEquivalent = @ + delta]
        ELSE balances[i]]

handleFuturesTrade ==
    /\ Idle
    /\ \E newFuturesTrade \in FuturesTradeForms :
          LET executionPrice == newFuturesTrade.currentMarketPrice
              contractValue == newFuturesTrade.quantity * executionPrice
              initialMargin == contractValue \div newFuturesTrade.leverage
              name == "Index - " \o newFuturesTrade.symbol
              trade == Trade(name,
                             IF newFuturesTrade.positionType = "LONG" THEN "LONG_FUTURES"
                             ELSE "SHORT_FUTURES",
                             newFuturesTrade.quantity, executionPrice)
              position == [id |-> NewId, symbol |-> newFuturesTrade.symbol, name |-> name,
                           positionType |-> newFuturesTrade.positionType,
                           quantity |-> newFuturesTrade.quantity,
                           entryPrice |-> executionPrice, currentPrice |-> executionPrice,
                           markToMarket |-> contractValue, unrealizedPnL |-> 0,
                           marginUsed |-> initialMargin, tickSize |-> 1, tickValue |-> 1]
          IN  /\ newFuturesTrade.quantity > 0
              /\ IF portfolioSummary.cashValue < initialMargin
                 THEN /\ lastAlert' = InsufficientCash
                      /\ UNCHANGED <<trades, futuresPositions, cashBalances, timeouts,
                                     effectPending>>
                 ELSE /\ Len(trades) < Len(mockTrades) + MaxTrades
                      /\ trades' = Append(trades, trade)
                      /\ futuresPositions' = Append(futuresPositions, position)
                      /\ cashBalances' = AdjustUSD(cashBalances, -initialMargin)
                      /\ timeouts' = Append(timeouts, Closure)
                      /\ effectPending' = TRUE
                      /\ UNCHANGED lastAlert
    /\ UNCHANGED <<securities, portfolioSummary, riskMetrics, interval, passError,
                   ticks, call>>

\* the rows of the futures table whose Close button the user may click: the
\* last one
CloseRows == {Len(futuresPositions)}

closeFuturesPosition ==
    /\ CanTrade
    /\ \E i \in CloseRows \cap (1..Len(futuresPositions)) :
          LET position == futuresPositions[i]
              finalPnL == PositionPnL(position, position.currentPrice)
              marginReturn == position.marginUsed + finalPnL
              closingTrade == Trade(position.name,
                                    IF position.positionType = "LONG" THEN "CLOSE_LONG"
                                    ELSE "CLOSE_SHORT",
                                    position.quantity, position.currentPrice)
          IN  /\ trades' = Append(trades, closingTrade)
              /\ futuresPositions' = Without(futuresPositions, position.id)
              /\ cashBalances' = AdjustUSD(cashBalances, marginReturn)
    /\ timeouts' = Append(timeouts, Closure)
    /\ effectPending' = TRUE
    /\ UNCHANGED <<securities, portfolioSummary, riskMetrics, interval, passError,
                   lastAlert, ticks, call>>

Next ==
    \/ StartInterval
    \/ RecalcEffect
    \/ RecalcTimeout
    \/ RecalcTimeoutUnmounted
    \/ Tick
    \/ Unmount
    \/ handleAddTrade
    \/ handleSell
    \/ handleFuturesTrade
    \/ closeFuturesPosition

Spec == Init /\ [][Next]_vars

(***************************************************************************)
(* Properties                                                              *)
(***************************************************************************)
SumOf(s, f) == SumSeq(Field(s, f))

\* C1: marking to market the result of calculateMTM again, with the same
\* price map, returns that result unchanged, field for field (NaN and the
\* infinities compared as values).
C1_MTMIdempotent ==
    call.fn = "calculateMTM2" => call.out = call.first

\* a stock and a futures position, one priced by the map and one not, and
\* the first call changed something
C1_Witness ==
    /\ call.fn = "calculateMTM2"
    /\ call.first # call.P
    /\ \E i, j \in 1..Len(call.P) :
          /\ call.P[i].type = "FUTURES" /\ call.P[i].symbol \in DOMAIN call.M
          /\ call.P[j].type # "FUTURES" /\ call.P[j].symbol \notin DOMAIN call.M

\* C2: the totalValue returned by calculatePortfolioSummary is the sum of
\* currentValue over all positions plus the sum of usdEquivalent over all
\* cash balances.
C2_TotalValueAdditive ==
    call.fn = "calculatePortfolioSummary" =>
        call.out.totalValue = SumOf(call.P, "currentValue") + SumOf(call.C, "usdEquivalent")

C3_ValueOf(s) ==
    IF s.type = "FUTURES" THEN s.quantity * s.currentPrice * s.contractSize
    ELSE s.quantity * s.currentPrice

\* C3: every held position has currentValue = quantity * currentPrice *
\* contractSize if it is a futures position, quantity * currentPrice
\* otherwise.
C3_CurrentValueInvariant ==
    \A i \in 1..Len(securities) : securities[i].currentValue = C3_ValueOf(securities[i])

\* C4: every cash balance has usdEquivalent = amount * exchangeRate.
C4_UsdEquivalentInvariant ==
    \A i \in 1..Len(cashBalances) :
        cashBalances[i].usdEquivalent = MulRate(cashBalances[i].amount, cashBalances[i].exchangeRate)

\* C5: calculateRiskMetrics fails with the zero-value error, and returns no
\* metrics, for the empty list and for every list whose currentValue sum is 0.
C5_RiskDegenerate ==
    (call.fn = "calculateRiskMetrics"
        /\ (call.P = <<>> \/ SumOf(call.P, "currentValue") = 0))
    => (call.out.thrown /\ call.out.error = "Portfolio has zero value"
        /\ call.out.value = NoMetrics)

\* a non-empty list whose values cancel
C5_Witness ==
    /\ call.fn = "calculateRiskMetrics"
    /\ call.P # <<>>
    /\ \E i \in 1..Len(call.P) : call.P[i].currentValue # 0
    /\ SumOf(call.P, "currentValue") = 0
    /\ call.out.thrown

\* C6: a recompute pass whose risk computation fails publishes nothing: the
\* published summary and risk metrics are what they were before the pass.
C6_NoPartialResult ==
    [][((RecalcEffect \/ RecalcTimeout) /\ passError' # "none")
        => (portfolioSummary' = portfolioSummary /\ riskMetrics' = riskMetrics)]_vars

\* C7: once ticks have begun, the published summary and risk metrics are
\* the ones computed from the published positions and cash balances.
C7_PublishedIsCurrent ==
    (Mounted /\ ticks > 0) =>
        /\ portfolioSummary = UpdatedSummary(securities, cashBalances, futuresPositions,
                                             portfolioSummary.lastUpdated)
        /\ (~RiskThrows(securities) => riskMetrics = RiskValue(securities))

\* C8: every published summary has availableMargin = cashValue -
\* totalMarginUsed, without clamping.
C8_AvailableMargin ==
    portfolioSummary.availableMargin =
        portfolioSummary.cashValue - portfolioSummary.totalMarginUsed

C9_Expected(p, price) ==
    IF p.positionType = "LONG"
    THEN (price - p.buyPrice) * p.quantity * p.contractSize
    ELSE (p.buyPrice - price) * p.quantity * p.contractSize

C9_Scenario ==
    [id |-> "s", name |-> "ES", type |-> "FUTURES", symbol |-> "ES", quantity |-> 2,
     buyPrice |-> 4200, buyValue |-> 420000, currentPrice |-> 4250, currentValue |-> 0,
     gainLoss |-> 0, gainLossPercent |-> Frac(0, 1), holdingPeriod |-> 0,
     contractSize |-> 50, marginUsed |-> 21000, positionType |-> "LONG"]

\* C9: for a futures position calculateMTM sets gainLoss to (price -
\* buyPrice) * quantity * contractSize when LONG and (buyPrice - price) *
\* quantity * contractSize when SHORT, price being the resolved price; it is
\* 0 when price = buyPrice, and 5000 for the LONG position 2 x 50 bought at
\* 4200 and priced 4250.
C9_FuturesGainLoss ==
    /\ call.fn = "calculateMTM" =>
          \A i \in 1..Len(call.P) :
              call.P[i].type = "FUTURES" =>
                  LET price == call.out[i].currentPrice
                  IN  /\ call.out[i].gainLoss = C9_Expected(call.P[i], price)
                      /\ (price = call.P[i].buyPrice => call.out[i].gainLoss = 0)
    /\ MTMOne(C9_Scenario, <<>>).gainLoss = 5000

\* a SHORT position that gained and a LONG position priced at its buy price
C9_Witness ==
    /\ call.fn = "calculateMTM"
    /\ \E i, j \in 1..Len(call.P) :
          /\ call.P[i].type = "FUTURES" /\ call.P[i].positionType = "SHORT"
          /\ call.P[i].quantity > 0
          /\ call.out[i].currentPrice > call.P[i].buyPrice
          /\ call.out[i].gainLoss < 0
          /\ call.P[j].type = "FUTURES" /\ call.P[j].positionType = "LONG"
          /\ call.out[j].currentPrice = call.P[j].buyPrice
          /\ call.out[j].gainLoss = 0

\* C10: calculateMTM returns as currentPrice the price map's entry for the
\* symbol whenever the map has one, whatever its value, and the stored
\* currentPrice only when the symbol is missing from the map.
C10_MapEntryAlwaysUsed ==
    call.fn = "calculateMTM" =>
        \A i \in 1..Len(call.P) :
            call.out[i].currentPrice =
                IF call.P[i].symbol \in DOMAIN call.M THEN call.M[call.P[i].symbol]
                ELSE call.P[i].currentPrice

\* C11: every summary published by a recompute pass has
\* marginUtilizationPercent = totalMarginUsed / cashValue * 100 of that same
\* summary when cashValue > 0, and 0 otherwise.
C11_MarginUtilization ==
    portfolioSummary # mockPortfolioSummary =>
        portfolioSummary.marginUtilizationPercent =
            IF portfolioSummary.cashValue > 0
            THEN Pct(portfolioSummary.totalMarginUsed, portfolioSummary.cashValue)
            ELSE Pct(0, 1)

\* C14: every summary published by a recompute pass has unrealizedPnL equal
\* to its own totalGainLoss.
C14_UnrealizedIsTotalGainLoss ==
    portfolioSummary # mockPortfolioSummary =>
        portfolioSummary.unrealizedPnL = portfolioSummary.totalGainLoss

\* C12: every division calculatePortfolioSummary performs has a non-zero
\* denominator, and the percentages it returns are finite numbers.
C12_SummaryDivisionsGuarded ==
    call.fn = "calculatePortfolioSummary" =>
        /\ (call.out.totalValue > 0 => call.out.totalValue - call.out.totalGainLoss # 0)
        /\ IsFinite(call.out.totalGainLossPercent)
        /\ IsFinite(call.out.marginUtilizationPercent)

\* the only outcome of the division that is not a number of either sign
C13_NotApplicable(f) == f = NaN

\* C13: for a position whose buyValue is 0, calculateMTM yields one and the
\* same not-applicable outcome as gainLossPercent instead of a percentage;
\* for any other position it yields gainLoss / buyValue * 100.
C13_ZeroBasisIsError ==
    call.fn = "calculateMTM" =>
        \A i \in 1..Len(call.P) :
            IF call.P[i].buyValue = 0
            THEN C13_NotApplicable(call.out[i].gainLossPercent)
            ELSE call.out[i].gainLossPercent = Pct(call.out[i].gainLoss, call.P[i].buyValue)

\* C15: calculatePortfolioSummary returns the caller's timestamp as
\* lastUpdated when one is supplied and the current time when none is; with
\* a supplied timestamp a later call with the same arguments returns the
\* same summary.
C15_LastUpdated ==
    call.fn = "calculatePortfolioSummary" =>
        IF call.ts # ""
        THEN /\ call.out.lastUpdated = call.ts
             /\ calculatePortfolioSummary(call.P, call.F, call.C, call.ts, "later") = call.out
        ELSE call.out.lastUpdated = "now"

\* a call over positions, contracts and cash with a supplied timestamp
C15_Witness ==
    /\ call.fn = "calculatePortfolioSummary"
    /\ call.ts = mockLastUpdated
    /\ call.P # <<>> /\ call.F # <<>> /\ call.C # <<>>
    /\ call.out.lastUpdated = mockLastUpdated

\* C16: a futures trade is opened only if its initial margin does not exceed
\* the portfolio's cash value (the sum of usdEquivalent over the cash
\* balances), and a rejected trade leaves the trade log, the futures
\* positions and every cash balance unchanged.
C16_InsufficientMarginRejected ==
    [][/\ Len(futuresPositions') > Len(futuresPositions) =>
              futuresPositions'[Len(futuresPositions')].marginUsed
                  <= SumOf(cashBalances, "usdEquivalent")
       /\ (lastAlert' = InsufficientCash /\ lastAlert # InsufficientCash) =>
              UNCHANGED <<trades, futuresPositions, cashBalances>>]_vars

\* C17: a tick happens only while the one interval timer is active, and once
\* the timer is cleared it stays cleared and the positions, the cash
\* balances and the futures positions never change again.
C17_TimerStoppable ==
    [][/\ ticks' # ticks => (interval = "active" /\ interval' = "active")
       /\ interval = "cleared" =>
              (interval' = "cleared"
               /\ UNCHANGED <<securities, cashBalances, futuresPositions, ticks>>)]_vars

\* the timer ticked, the dashboard was unmounted with a deferred
\* recalculation still queued, and that callback has since run
C17_Witness ==
    /\ interval = "cleared"
    /\ ticks > 0
    /\ Len(trades) > Len(mockTrades)
    /\ timeouts = <<>>

\* C18: calculateFuturesPnL returns (currentPrice - entryPrice) * quantity *
\* tickValue / tickSize for a LONG position and the negation of that for
\* the SHORT position with the same fields; it is 0 for both when
\* currentPrice = entryPrice.
C18_FuturesPnL ==
    call.fn = "calculateFuturesPnL" =>
        LET p == call.position
            long == Frac((call.currentPrice - p.entryPrice) * p.quantity * p.tickValue,
                         p.tickSize)
            short == [long EXCEPT !.n = -long.n]
        IN  /\ call.out = IF p.positionType = "LONG" THEN long ELSE short
            /\ call.mirror = [call.out EXCEPT !.n = -call.out.n]
            /\ (call.currentPrice = p.entryPrice =>
                    call.out = Frac(0, 1) /\ call.mirror = Frac(0, 1))

\* a SHORT position of several contracts, priced one tick above its entry,
\* lost one tick value per contract
C18_Witness ==
    /\ call.fn = "calculateFuturesPnL"
    /\ call.position.positionType = "SHORT"
    /\ call.position.quantity > 1
    /\ call.currentPrice = call.position.entryPrice + call.position.tickSize
    /\ call.out = Frac(-(call.position.quantity * call.position.tickValue), 1)
    /\ call.mirror.n > 0

\* C19: once the recompute that follows a tick has run, the positions are
\* marked to market (they are what calculateMTM returns for them, with the
\* simulated prices kept or with the closing prices), and the summary and
\* the risk metrics are the ones computed from them.
C19_TickThenFullRecompute ==
    (Idle /\ ticks > 0) =>
        /\ \E M \in { <<>>, mockClosingPrices } : securities = calculateMTM(securities, M)
        /\ portfolioSummary = UpdatedSummary(securities, cashBalances, futuresPositions,
                                             portfolioSummary.lastUpdated)
        /\ (~RiskThrows(securities) => riskMetrics = RiskValue(securities))

\* C20: calculatePortfolioSummary returns as futuresValue the sum of
\* currentValue over the positions of type FUTURES, as totalMarginUsed the
\* sum of marginUsed over those positions and as securitiesValue the sum of
\* currentValue over the other positions, whatever the reference contracts.
C20_FuturesPartition ==
    call.fn = "calculatePortfolioSummary" =>
        /\ call.out.futuresValue = SumOf(SelectSeq(call.P, IsFutures), "currentValue")
        /\ call.out.totalMarginUsed = SumOf(SelectSeq(call.P, IsFutures), "marginUsed")
        /\ call.out.securitiesValue = SumOf(SelectSeq(call.P, NotFutures), "currentValue")

\* the beta of a symbol as the claim gives it, in tenths
C21_Beta(symbol) ==
    CASE symbol = "GC" -> 0
      [] symbol = "XOM" -> 10
      [] symbol \in DOMAIN mockBetas -> mockBetas[symbol]
      [] OTHER -> 10

\* C21: the beta calculateRiskMetrics returns is the sum over the positions
\* of currentValue / totalValue times the table's beta of the symbol, 0.0
\* for GC included, and times 1.0 for a symbol the table does not list.
C21_PortfolioBeta ==
    (call.fn = "calculateRiskMetrics" /\ ~call.out.thrown) =>
        call.out.value.beta =
            Frac(SumSeq([i \in 1..Len(call.P) |->
                            call.P[i].currentValue * C21_Beta(call.P[i].symbol)]),
                 SumOf(call.P, "currentValue") * 10)

\* a gold position (beta 0.0) next to a stock the table does not list
C21_Witness ==
    /\ call.fn = "calculateRiskMetrics"
    /\ ~call.out.thrown
    /\ Len(call.P) = 2
    /\ call.P[1].symbol = "GC" /\ call.P[2].symbol = "XOM"
    /\ call.out.value.beta = Frac(8500, 850000 + 8500)

\* the series the claim describes for the positions the call has left behind
C22_Expected(secs) ==
    LET totalValue == SumOf(secs, "currentValue")
        lengths == { Len(secs[j].historicalReturns) : j \in 1..Len(secs) }
        shortest == CHOOSE l \in lengths : \A m \in lengths : l <= m
        length == IF shortest < 365 THEN shortest ELSE 365
        term(j, i) == IF i \in DOMAIN secs[j].historicalReturns
                      THEN Frac(secs[j].historicalReturns[i] * secs[j].currentValue, 10 * totalValue)
                      ELSE Frac(0, 1)
    IN  [i \in 1..length |-> FracSum([j \in 1..Len(secs) |-> term(j, i)])]

RECURSIVE C23_Value(_, _)
\* value after the first k returns: 1.0 multiplied by (1 + r) for each
C23_Value(returns, k) ==
    IF k = 0 THEN Frac(1, 1)
    ELSE FracMul(C23_Value(returns, k - 1), FracAdd(Frac(1, 1), returns[k]))

\* the running maximum of value after the first k returns, starting at 1.0
C23_Peak(returns, k) ==
    LET values == { C23_Value(returns, j) : j \in 0..k }
    IN  CHOOSE p \in values : \A v \in values : ~FracLess(p, v)

C23_Drawdown(returns, k) ==
    FracDiv(FracAdd(C23_Value(returns, k), FracNeg(C23_Peak(returns, k))), C23_Peak(returns, k))

\* C23: maxDrawdown is the minimum over the series of (value - peak) / peak;
\* it is never positive, and it is 0 when the series is empty or value never
\* falls below its running peak.
C23_MaxDrawdown ==
    (call.fn = "calculateRiskMetrics.series" /\ ~call.out.thrown) =>
        LET returns == call.out.portfolioReturns
            drawdowns == { C23_Drawdown(returns, k) : k \in 1..Len(returns) }
            maxDD == call.out.maxDrawdown
        IN  /\ drawdowns # {} => /\ maxDD \in drawdowns
                                 /\ \A d \in drawdowns : ~FracLess(d, maxDD)
            /\ maxDD.n <= 0 /\ maxDD.d > 0
            /\ (\A k \in 1..Len(returns) :
                   ~FracLess(C23_Value(returns, k), C23_Peak(returns, k - 1))) => maxDD.n = 0

\* value climbs to 1.5 and then falls to 0.75: half of the peak is lost
C23_Witness ==
    /\ call.fn = "calculateRiskMetrics.series"
    /\ ~call.out.thrown
    /\ call.out.portfolioReturns = << Frac(1, 2), Frac(-1, 2) >>
    /\ call.out.maxDrawdown = Frac(-1, 2)

\* the tick-based P&L of a held position at its current price
C24_TickPnL(position) == calculateFuturesPnL(position, position.currentPrice)

\* C24: the unrealizedPnL a tick stores on a futures position, and the P&L
\* settled into cash when a position is closed, equal the tick-based
\* calculateFuturesPnL(position, currentPrice).
C24_TickBasedPnL ==
    [][ /\ ticks' = ticks + 1 =>
            \A i \in 1..Len(futuresPositions') :
                Frac(futuresPositions'[i].unrealizedPnL, 1) = C24_TickPnL(futuresPositions'[i])
        /\ Len(futuresPositions') < Len(futuresPositions) =>
            \E i \in 1..Len(futuresPositions) :
                /\ futuresPositions' = Without(futuresPositions, futuresPositions[i].id)
                /\ C24_TickPnL(futuresPositions[i]).d = 1
                /\ cashBalances' = AdjustUSD(cashBalances,
                       futuresPositions[i].marginUsed + C24_TickPnL(futuresPositions[i]).n) ]_vars

\* C25: after a trade handler and every callback it scheduled have run, with
\* no tick in between, the published summary and risk metrics are the ones
\* computed from the post-trade securities, futures positions and cash
\* balances.
C25_PostTradePublished ==
    (Idle /\ ticks = 0 /\ Len(trades) > Len(mockTrades)) =>
        /\ portfolioSummary = UpdatedSummary(securities, cashBalances, futuresPositions,
                                             portfolioSummary.lastUpdated)
        /\ (~RiskThrows(securities) => riskMetrics = RiskValue(securities))

\* the recompute passes still to run: the effect and the deferred callbacks
C26_Pending == (IF effectPending THEN 1 ELSE 0) + Len(timeouts)

\* a step that is a recompute pass of the mounted dashboard
C26_IsPass == RecalcEffect \/ RecalcTimeout

\* C26: a recompute pass does not retrigger itself: it leaves lastUpdated
\* and the effect's other dependencies as they are and uses up one pending
\* run; a tick or a user action adds at most two, and with none pending the
\* dashboard publishes nothing until the next tick or action.
C26_NoRetrigger ==
    [][ /\ C26_IsPass =>
            /\ portfolioSummary'.lastUpdated = portfolioSummary.lastUpdated
            /\ <<securities, cashBalances, futuresPositions>>' =
                   <<securities, cashBalances, futuresPositions>>
            /\ C26_Pending' = C26_Pending - 1
        /\ C26_Pending' <= C26_Pending + 2
        /\ (Mounted /\ C26_Pending = 0) =>
            /\ <<portfolioSummary, riskMetrics>>' = <<portfolioSummary, riskMetrics>>
            /\ C26_Pending' > 0 =>
                   (ticks' # ticks \/ trades' # trades \/ securities' # securities) ]_vars

\* quiescent after a tick and a trade, with the initial lastUpdated
C26_Witness ==
    /\ Idle
    /\ ticks > 0
    /\ Len(trades) > Len(mockTrades)
    /\ portfolioSummary # mockPortfolioSummary
    /\ portfolioSummary.lastUpdated = mockLastUpdated

RECURSIVE C27_CashAfterTicks(_)
\* the cash balances k ticks lead to when no trade touches them
C27_CashAfterTicks(k) ==
    IF k = 0 THEN { mockCashBalances }
    ELSE { updateExchangeRates(c, u) : c \in C27_CashAfterTicks(k - 1), u \in Draws }

\* the log shows one futures position opened through the form and closed at
\* its entry price, that is with no tick in between, and no other trade
C27_RoundTripDone ==
    /\ Len(trades) > Len(mockTrades)
    /\ trades[Len(mockTrades) + 1].type \in {"LONG_FUTURES", "SHORT_FUTURES"}
    /\ \A k \in (Len(mockTrades) + 1)..Len(trades) :
          trades[k].type \in {"LONG_FUTURES", "SHORT_FUTURES", "CLOSE_LONG", "CLOSE_SHORT"}
    /\ Len(futuresPositions) = Len(mockFuturesPositions)
    /\ trades[Len(trades)].price = trades[Len(mockTrades) + 1].price

\* C27: opening a futures position and closing it with no tick in between
\* is a round trip on cash: every balance's amount and usdEquivalent are
\* what they would be without the two trades, the position is no longer
\* held, and the log has grown by the opening and the closing trade.
C27_OpenCloseRoundTrip ==
    C27_RoundTripDone =>
        LET opening == trades[Len(mockTrades) + 1]
            closing == trades[Len(trades)]
        IN  /\ cashBalances \in C27_CashAfterTicks(ticks)
            /\ \A i \in 1..Len(cashBalances) : cashBalances[i].amount = mockCashBalances[i].amount
            /\ \A i \in 1..Len(futuresPositions) : futuresPositions[i].name # opening.securityName
            /\ Len(trades) = Len(mockTrades) + 2
            /\ closing.type = (IF opening.type = "LONG_FUTURES" THEN "CLOSE_LONG" ELSE "CLOSE_SHORT")
            /\ closing.securityName = opening.securityName
            /\ closing.quantity = opening.quantity

\* a long position opened after a tick and closed again, the passes done
C27_Witness ==
    /\ C27_RoundTripDone
    /\ Idle
    /\ ticks > 0
    /\ trades[Len(trades)].type = "CLOSE_LONG"
    /\ cashBalances # mockCashBalances

\* C28: the amount of the USD cash balance, the balance every margin is
\* debited from, is never negative.
C28_USDNeverNegative ==
    \A i \in 1..Len(cashBalances) :
        cashBalances[i].currency = "USD" => cashBalances[i].amount >= 0

\* C29: whenever calculateRiskMetrics does not raise the degenerate-portfolio
\* error, volatility is non-zero when the Sharpe ratio is computed and
\* totalValue - marginUsed is non-zero when leverageRatio is computed.
C29_DivisorsNonZero ==
    /\ (call.fn = "calculateRiskMetrics.series" /\ ~call.out.thrown) =>
           call.out.volatilitySquared.n # 0
    /\ (call.fn = "calculateRiskMetrics" /\ ~call.out.thrown) =>
           IsFinite(call.out.value.leverageRatio)

\* the price of a position is within 0.5% of its entry price
C30_WithinBand(position) ==
    1000 * Abs(position.currentPrice - position.entryPrice) <= 5 * position.entryPrice

\* marginUsed plus the direction-signed price move times the quantity
C30_Credit(position) ==
    position.marginUsed
      + (IF position.positionType = "LONG" THEN 1 ELSE -1)
          * (position.currentPrice - position.entryPrice) * position.quantity

C30_USDAmount(balances) ==
    SumSeq([i \in 1..Len(balances) |->
               IF balances[i].currency = "USD" THEN balances[i].amount ELSE 0])

====
